---- MODULE Spec2Model ----
(***************************************************************************)
(* Traceability graph and test-status rollup of src/generate_site.py:      *)
(* Project.build_graph, Project.descendants, Project.tests_rollup,         *)
(* parse_external_id, is_test_id and summarize_counts.                     *)
(*                                                                         *)
(* Strings that the code takes apart (identifiers, test results) are       *)
(* sequences of lexemes: the separator "-" and the blank " " are always    *)
(* lexemes of their own, every other lexeme is a run of characters that    *)
(* holds neither.  "SYS-AT-1" is <<"SYS","-","AT","-","1">> and "Not Run"  *)
(* is <<"Not"," ","Run">>.  Labels returned by summarize_counts are never  *)
(* taken apart and are plain strings.                                      *)
(***************************************************************************)
EXTENDS Integers, Sequences, FiniteSets, TLC

VARIABLES requirements, tests, req_children, req_tests,
          pc, op, rid, seen, stack, ret

vars == <<requirements, tests, req_children, req_tests,
          pc, op, rid, seen, stack, ret>>

(***************************************************************************)
(* Bounds of the datasets explored.                                        *)
(***************************************************************************)
MaxGraphLinks == 3
MaxClassLinks == 3
MaxTestLinks == 3
MaxFairLinks == 3
MaxCycleTestLinks == 4
MaxIdLen == 5
MaxPadLinks == 3

(***************************************************************************)
(* Identifiers and result strings of the datasets.                         *)
(***************************************************************************)
ReqA == <<"SYS", "-", "SRS", "-", "1">>
ReqB == <<"SYS", "-", "SRS", "-", "2">>
ReqC == <<"SYS", "-", "SRS", "-", "3">>
ReqAT == <<"SYS", "-", "AT", "-", "7">>
TestT1 == <<"SYS", "-", "AT", "-", "1">>
TestT2 == <<"SYS", "-", "AT", "-", "2", "-", "b">>
Unknown999 == <<"SYS", "-", "SRS", "-", "999">>
BAD == <<"BAD">>

PASSED == <<"PASSED">>
FAILED == <<"FAILED">>
PARTIAL == <<"PARTIAL">>
NotRun == <<"Not", " ", "Run">>
NOT_TESTED == <<"NOT", " ", "TESTED">>
Missing == <<"Missing">>
EmptyResult == <<>>
AT == <<"AT">>
PaddedPassed == <<" ", "PASSED", " ">>
Blank == <<" ", " ">>

Results == {PASSED, FAILED, PARTIAL, NotRun, NOT_TESTED, EmptyResult}

(***************************************************************************)
(* Python helpers.                                                         *)
(***************************************************************************)
EmptyDict == [k \in {} |-> <<>>]

\* dict.get(k, default)
get(d, k, default) == IF k \in DOMAIN d THEN d[k] ELSE default

\* d[k] = v
put(d, k, v) == [x \in DOMAIN d \cup {k} |-> IF x = k THEN v ELSE d[x]]

Range(s) == {s[i] : i \in DOMAIN s}

RECURSIVE lstrip(_)
lstrip(s) == IF s = <<>> THEN s
             ELSE IF Head(s) = " " THEN lstrip(Tail(s)) ELSE s

RECURSIVE rstrip(_)
rstrip(s) == IF s = <<>> THEN s
             ELSE IF s[Len(s)] = " " THEN rstrip(SubSeq(s, 1, Len(s) - 1)) ELSE s

\* str.strip()
strip(s) == rstrip(lstrip(s))

\* str.split("-"): the segments between the separators; "" splits into [""]
RECURSIVE split(_)
split(s) ==
    IF s = <<>> THEN << <<>> >>
    ELSE IF Head(s) = "-" THEN << <<>> >> \o split(Tail(s))
    ELSE LET rest == split(Tail(s))
         IN  << <<Head(s)>> \o Head(rest) >> \o Tail(rest)

\* "-".join(parts)
RECURSIVE join(_)
join(parts) ==
    IF parts = <<>> THEN <<>>
    ELSE IF Len(parts) = 1 THEN parts[1]
    ELSE parts[1] \o <<"-">> \o join(Tail(parts))

(***************************************************************************)
(* Identifier classifier.                                                  *)
(***************************************************************************)
\* mutant: two segments are enough
parse_external_id_TwoParts(eid) ==
    LET parts == split(strip(eid))
    IN  IF Len(parts) < 2
        THEN [ok |-> FALSE, mod |-> <<>>, sd |-> <<>>, counter |-> <<>>]
        ELSE [ok |-> TRUE, mod |-> parts[1], sd |-> parts[2],
              counter |-> join(SubSeq(parts, 3, Len(parts)))]

\* ok = FALSE stands for the ValueError of line 95
parse_external_id(eid) ==
    LET parts == split(strip(eid))
    IN  IF Len(parts) < 3
        THEN [ok |-> FALSE, mod |-> <<>>, sd |-> <<>>, counter |-> <<>>]
        ELSE [ok |-> TRUE, mod |-> parts[1], sd |-> parts[2],
              counter |-> join(SubSeq(parts, 3, Len(parts)))]

is_test_id(eid) ==
    LET p == parse_external_id(eid)
    IN  IF p.ok THEN p.sd = AT ELSE FALSE

(***************************************************************************)
(* Graph builder.                                                          *)
(***************************************************************************)
\* mutant: the membership test comes first
ClassifyKnownFirst(tgt, reqs) ==
    IF tgt \in DOMAIN reqs THEN "child"
    ELSE IF is_test_id(tgt) THEN "test"
    ELSE "none"

\* mutant: the membership test is missing
ClassifyNoMembership(tgt, reqs) ==
    IF is_test_id(tgt) THEN "test" ELSE "child"

\* the if / elif of lines 63-66: the list a token is appended to
Classify(tgt, reqs) ==
    IF is_test_id(tgt) THEN "test"
    ELSE IF tgt \in DOMAIN reqs THEN "child"
    ELSE "none"

\* mutant: the loop ends at the first token that goes to neither list
RECURSIVE ResolveStopAtBroken(_, _, _)
ResolveStopAtBroken(outgoing, reqs, kind) ==
    IF outgoing = <<>> THEN <<>>
    ELSE IF Classify(Head(outgoing), reqs) = "none" THEN <<>>
    ELSE (IF Classify(Head(outgoing), reqs) = kind
          THEN <<Head(outgoing)>> ELSE <<>>)
         \o ResolveStopAtBroken(Tail(outgoing), reqs, kind)

\* mutant: a token that comes again later in the list is skipped
RECURSIVE ResolveNoDuplicates(_, _, _)
ResolveNoDuplicates(outgoing, reqs, kind) ==
    IF outgoing = <<>> THEN <<>>
    ELSE (IF /\ Classify(Head(outgoing), reqs) = kind
             /\ Head(outgoing) \notin Range(Tail(outgoing))
          THEN <<Head(outgoing)>> ELSE <<>>)
         \o ResolveNoDuplicates(Tail(outgoing), reqs, kind)

\* the inner loop of lines 62-66, for one of the two lists
RECURSIVE Resolve(_, _, _)
Resolve(outgoing, reqs, kind) ==
    IF outgoing = <<>> THEN <<>>
    ELSE (IF Classify(Head(outgoing), reqs) = kind
          THEN <<Head(outgoing)>> ELSE <<>>)
         \o Resolve(Tail(outgoing), reqs, kind)

\* mutant: an entry is made only when the first link is appended
GraphKeysLazy(reqs, kind) ==
    {k \in DOMAIN reqs : Resolve(reqs[k], reqs, kind) # <<>>}

\* the keys of the dict comprehensions of lines 59-60
GraphKeys(reqs, kind) == DOMAIN reqs

build_graph(reqs, kind) ==
    [k \in GraphKeys(reqs, kind) |-> Resolve(reqs[k], reqs, kind)]

(***************************************************************************)
(* Rollup aggregator.                                                      *)
(***************************************************************************)
\* mutant: an empty result is not replaced by "Not Run"
ResultOfNoDefault(tid) ==
    LET raw == IF tid \in DOMAIN tests THEN tests[tid] ELSE Missing
    IN  strip(raw)

\* line 86
ResultOf(tid) ==
    LET raw == IF tid \in DOMAIN tests THEN tests[tid] ELSE Missing
    IN  IF strip(raw) = <<>> THEN NotRun ELSE strip(raw)

\* the loop of lines 84-87
RECURSIVE Tally(_, _)
Tally(ids, counts) ==
    IF ids = <<>> THEN counts
    ELSE Tally(Tail(ids),
               put(counts, ResultOf(Head(ids)),
                   get(counts, ResultOf(Head(ids)), 0) + 1))

\* mutant: PARTIAL is looked at before FAILED
summarize_counts_PartialFirst(counts, total) ==
    IF total = 0 THEN "No Tests"
    ELSE IF get(counts, PARTIAL, 0) > 0 THEN "Partial"
    ELSE IF get(counts, FAILED, 0) > 0 THEN "Any Fail"
    ELSE IF get(counts, NotRun, 0) + get(counts, NOT_TESTED, 0) > 0 THEN "NOT TESTED"
    ELSE IF get(counts, PASSED, 0) = total THEN "PASSED"
    ELSE "Mixed"

\* mutant: the not-run test comes before the PARTIAL test
summarize_counts_NotRunFirst(counts, total) ==
    IF total = 0 THEN "No Tests"
    ELSE IF get(counts, FAILED, 0) > 0 THEN "Any Fail"
    ELSE IF get(counts, NotRun, 0) + get(counts, NOT_TESTED, 0) > 0 THEN "NOT TESTED"
    ELSE IF get(counts, PARTIAL, 0) > 0 THEN "Partial"
    ELSE IF get(counts, PASSED, 0) = total THEN "PASSED"
    ELSE "Mixed"

\* mutant: the test for an empty rollup is missing
summarize_counts_NoTotal(counts, total) ==
    IF get(counts, FAILED, 0) > 0 THEN "Any Fail"
    ELSE IF get(counts, PARTIAL, 0) > 0 THEN "Partial"
    ELSE IF get(counts, NotRun, 0) + get(counts, NOT_TESTED, 0) > 0 THEN "NOT TESTED"
    ELSE IF get(counts, PASSED, 0) = total THEN "PASSED"
    ELSE "Mixed"

summarize_counts(counts, total) ==
    IF total = 0 THEN "No Tests"
    ELSE IF get(counts, FAILED, 0) > 0 THEN "Any Fail"
    ELSE IF get(counts, PARTIAL, 0) > 0 THEN "Partial"
    ELSE IF get(counts, NotRun, 0) + get(counts, NOT_TESTED, 0) > 0 THEN "NOT TESTED"
    ELSE IF get(counts, PASSED, 0) = total THEN "PASSED"
    ELSE "Mixed"

\* the orders in which "for child in self.descendants(rid)" may visit a set
Orders(S) ==
    {p \in [1..Cardinality(S) -> S] : \A i, j \in DOMAIN p : p[i] = p[j] => i = j}

\* lines 81-82
RECURSIVE ExtendAll(_, _)
ExtendAll(ids, order) ==
    IF order = <<>> THEN ids
    ELSE ExtendAll(ids \o get(req_tests, Head(order), <<>>), Tail(order))

(***************************************************************************)
(* Descendant resolver, one loop iteration at a time.                      *)
(***************************************************************************)
\* mutant: the top of the stack is read but not removed
StackAfterPopPeek(stk) == stk

\* stack.pop() of line 72: what is left of the stack
StackAfterPop(stk) == SubSeq(stk, 1, Len(stk) - 1)

\* mutant: the children of a visited node are not pushed
ExpandNothing(stk, cur, children) == stk

\* line 75
Expand(stk, cur, children) == stk \o get(children, cur, <<>>)

\* mutant: the stack is the list of the map itself, not a copy of it
ChildrenAliased(children, r, stk) ==
    IF r \in DOMAIN children THEN [children EXCEPT ![r] = stk] ELSE children

\* list(...) of line 70: the stack is a copy, so a pop or an extend of the
\* stack leaves the child adjacency map as it is
ChildrenAfterStep(children, r, stk) == children

\* the loop of lines 71-76 run to its end
RECURSIVE DescLoop(_, _, _)
DescLoop(children, sn, stk) ==
    IF stk = <<>> THEN sn
    ELSE LET cur == stk[Len(stk)]
             popped == StackAfterPop(stk)
         IN  IF cur \in sn
             THEN DescLoop(children, sn, popped)
             ELSE DescLoop(children, sn \cup {cur}, Expand(popped, cur, children))

\* lines 68-76 as a function of the child adjacency map
descendants(children, r) == DescLoop(children, {}, get(children, r, <<>>))

(***************************************************************************)
(* Datasets.                                                               *)
(***************************************************************************)
SeqsUpTo(S, n) == UNION {[1..k -> S] : k \in 0..n}

\* the tuples of n token lists holding at most budget tokens in all
RECURSIVE Lists(_, _, _)
Lists(n, budget, toks) ==
    IF n = 0 THEN {<<>>}
    ELSE UNION {{<<l>> \o rest : rest \in Lists(n - 1, budget - Len(l), toks)}
                : l \in SeqsUpTo(toks, budget)}

IndexOf(ks, k) == CHOOSE i \in DOMAIN ks : ks[i] = k

Datasets(ks, toks, budget) ==
    {[k \in Range(ks) |-> ls[IndexOf(ks, k)]] : ls \in Lists(Len(ks), budget, toks)}

TestMaps(tids, results) == UNION {[D -> results] : D \in SUBSET tids}

\* link structure: three requirements linking to each other
InitGraph ==
    /\ requirements \in Datasets(<<ReqA, ReqB, ReqC>>, {ReqA, ReqB, ReqC}, MaxGraphLinks)
    /\ tests = EmptyDict

\* classification: every shape of token, one requirement with the test type code
InitClass ==
    /\ requirements \in Datasets(<<ReqA, ReqAT>>,
                                 {ReqA, ReqAT, TestT1, Unknown999, BAD}, MaxClassLinks)
    /\ tests \in TestMaps({TestT1}, {PASSED})

\* test results: two requirements, two tests with every result or no record
InitTests ==
    /\ requirements \in Datasets(<<ReqA, ReqB>>, {ReqB, TestT1, TestT2}, MaxTestLinks)
    /\ tests \in TestMaps({TestT1, TestT2}, Results)

\* tests on a cycle: two requirements linking to each other and to one test
InitCycleTests ==
    /\ requirements \in Datasets(<<ReqA, ReqB>>, {ReqA, ReqB, TestT1}, MaxCycleTestLinks)
    /\ tests \in TestMaps({TestT1}, {PASSED})

\* the lexemes of the identifiers of InitIds
IdLexemes == {"-", " ", "AT", "X"}

\* every string of at most n lexemes; two words never stand side by side,
\* since they would be one word
Ids(n) ==
    {s \in SeqsUpTo(IdLexemes, n) :
        \A i \in 1..(Len(s) - 1) : s[i] \in {"-", " "} \/ s[i + 1] \in {"-", " "}}

\* identifiers: one requirement whose single outgoing token is any string
InitIds ==
    /\ requirements \in {[k \in {ReqA} |-> <<tok>>] : tok \in Ids(MaxIdLen)}
    /\ tests = EmptyDict

\* results with blanks: one requirement, tests with padded or blank results,
\* and a test id (ReqAT) that never has a record
InitPadded ==
    /\ requirements \in Datasets(<<ReqA>>, {TestT1, TestT2, ReqAT}, MaxPadLinks)
    /\ tests \in TestMaps({TestT1, TestT2}, {PaddedPassed, Blank, EmptyResult})

\* the datasets of the termination check: every cycle over three requirements
InitCycles ==
    /\ requirements \in Datasets(<<ReqA, ReqB, ReqC>>, {ReqA, ReqB, ReqC}, MaxFairLinks)
    /\ tests = EmptyDict

\* the state of a Project that load_project has constructed (lines 55-56)
Constructed ==
    /\ req_children = EmptyDict
    /\ req_tests = EmptyDict
    /\ pc = "loaded"
    /\ op = "none"
    /\ rid = <<>>
    /\ seen = {}
    /\ stack = <<>>
    /\ ret = <<>>

Init == (InitGraph \/ InitClass \/ InitTests \/ InitCycleTests \/ InitIds
         \/ InitPadded)
        /\ Constructed

InitFair == InitCycles /\ Constructed

(***************************************************************************)
(* Operations.                                                             *)
(***************************************************************************)
BuildGraph ==
    /\ pc = "loaded"
    /\ req_children' = build_graph(requirements, "child")
    /\ req_tests' = build_graph(requirements, "test")
    /\ pc' = "idle"
    /\ UNCHANGED <<requirements, tests, op, rid, seen, stack, ret>>

\* lines 69-70, called by a renderer
CallDescendants ==
    /\ pc = "idle"
    /\ \E r \in DOMAIN requirements :
         /\ rid' = r
         /\ stack' = get(req_children, r, <<>>)
    /\ seen' = {}
    /\ op' = "descendants"
    /\ pc' = "loop"
    /\ ret' = <<>>
    /\ UNCHANGED <<requirements, tests, req_children, req_tests>>

\* lines 79-81 up to the call of descendants
CallRollup ==
    /\ pc = "idle"
    /\ \E r \in DOMAIN requirements :
         /\ rid' = r
         /\ stack' = get(req_children, r, <<>>)
    /\ seen' = {}
    /\ op' = "tests_rollup"
    /\ pc' = "loop"
    /\ ret' = <<>>
    /\ UNCHANGED <<requirements, tests, req_children, req_tests>>

\* one iteration of the loop of lines 71-75
DescStep ==
    /\ pc = "loop"
    /\ stack # <<>>
    /\ LET cur == stack[Len(stack)]
           popped == StackAfterPop(stack)
       IN  IF cur \in seen
           THEN /\ stack' = popped
                /\ seen' = seen
           ELSE /\ seen' = seen \cup {cur}
                /\ stack' = Expand(popped, cur, req_children)
    /\ req_children' = ChildrenAfterStep(req_children, rid, stack')
    /\ UNCHANGED <<requirements, tests, req_tests, pc, op, rid, ret>>

\* line 76, for a direct call
DescReturn ==
    /\ pc = "loop"
    /\ stack = <<>>
    /\ op = "descendants"
    /\ ret' = seen
    /\ pc' = "idle"
    /\ UNCHANGED <<requirements, tests, req_children, req_tests, op, rid, seen, stack>>

\* lines 80-89, once descendants has returned
RollupReturn ==
    /\ pc = "loop"
    /\ stack = <<>>
    /\ op = "tests_rollup"
    /\ \E order \in Orders(seen) :
         LET ids == ExtendAll(get(req_tests, rid, <<>>), order)
             counts == Tally(ids, EmptyDict)
         IN  ret' = [label |-> summarize_counts(counts, Len(ids)),
                     counts |-> counts, ids |-> ids]
    /\ pc' = "idle"
    /\ UNCHANGED <<requirements, tests, req_children, req_tests, op, rid, seen, stack>>

Next ==
    \/ BuildGraph
    \/ CallDescendants
    \/ CallRollup
    \/ DescStep
    \/ DescReturn
    \/ RollupReturn

Spec == Init /\ [][Next]_vars

\* the loop and the return run to completion once a query is called
FairSpec ==
    /\ InitFair /\ [][Next]_vars
    /\ WF_vars(DescStep)
    /\ WF_vars(DescReturn)
    /\ WF_vars(RollupReturn)

(***************************************************************************)
(* Vocabulary of the properties.                                           *)
(***************************************************************************)
Built == pc # "loaded"

\* build_graph has returned and no query has been called yet
JustBuilt == pc = "idle" /\ op = "none"

DescDone == pc = "idle" /\ op = "descendants"

RollupDone == pc = "idle" /\ op = "tests_rollup"

Keys == DOMAIN requirements

ChildSet(n) == Range(get(req_children, n, <<>>))

DirectTests(n) == get(req_tests, n, <<>>)

\* the requirements that one to n child edges lead to from r
RECURSIVE ReachedWithin(_, _)
ReachedWithin(r, n) ==
    IF n <= 1 THEN ChildSet(r)
    ELSE LET prev == ReachedWithin(r, n - 1)
         IN  prev \cup UNION {ChildSet(x) : x \in prev}

\* d is reached from r along one or more child edges; a shortest way there
\* takes at most as many edges as there are requirements
Reachable(r, d) == d \in ReachedWithin(r, Cardinality(Keys))

\* r and the requirements reachable from it
Family(r) == {r} \cup {d \in Keys : Reachable(r, d)}

\* the test ids associated with r: its own and those of reachable requirements
AssociatedTests(r) == UNION {Range(DirectTests(n)) : n \in Family(r)}

HasRecord(tid) == tid \in DOMAIN tests

IsFail(tid) == HasRecord(tid) /\ strip(tests[tid]) = FAILED

IsPartial(tid) == HasRecord(tid) /\ strip(tests[tid]) = PARTIAL

IsPass(tid) == HasRecord(tid) /\ strip(tests[tid]) = PASSED

IsNotRun(tid) == HasRecord(tid) /\ strip(tests[tid]) \in {EmptyResult, NotRun}

IsMissing(tid) == ~HasRecord(tid)

IsBroken(tok) == ~is_test_id(tok) /\ tok \notin Keys

Tokens == UNION {Range(requirements[k]) : k \in Keys}

(***************************************************************************)
(* C1: no requirement is a member of its own descendants set, cycles       *)
(* through it and self-links included.                                     *)
(***************************************************************************)
C1_NotOwnDescendant == DescDone => rid \notin ret

(***************************************************************************)
(* C2: descendants terminates on every graph, cyclic ones included: a      *)
(* traversal that has started reaches an empty frontier and returns.       *)
(***************************************************************************)
C2_Terminates == (pc = "loop") ~> (pc = "idle" /\ stack = <<>>)

\* a direct query over a cycle through its own argument has returned
C2_Witness == DescDone /\ Reachable(rid, rid) /\ ret # {}

(***************************************************************************)
(* C3: descendants(r) holds every requirement other than r that a walk of  *)
(* one or more child edges reaches from r, and holds nothing that no such  *)
(* walk reaches; the set is fixed by the graph, not by the pop order.      *)
(***************************************************************************)
C3_SoundComplete ==
    DescDone =>
        /\ \A d \in Keys : (d # rid /\ Reachable(rid, d)) => d \in ret
        /\ \A d \in ret : d \in Keys /\ Reachable(rid, d)

\* a returned set with a member that is not a direct child
C3_Witness == DescDone /\ \E d \in ret : d # rid /\ d \notin ChildSet(rid)

(***************************************************************************)
(* C4: a token for which is_test holds goes to the direct-test list, known *)
(* test or not, known requirement or not; any other token goes to the      *)
(* child list when it is a known requirement id and to neither list when   *)
(* it is not; no token is in both lists.                                   *)
(***************************************************************************)
C4_Classification ==
    JustBuilt =>
        \A k \in Keys : \A tok \in Tokens \cup Keys :
            LET out == tok \in Range(requirements[k])
            IN  /\ tok \in Range(req_tests[k]) <=> (out /\ is_test_id(tok))
                /\ tok \in Range(req_children[k])
                       <=> (out /\ ~is_test_id(tok) /\ tok \in Keys)
                /\ ~(tok \in Range(req_tests[k]) /\ tok \in Range(req_children[k]))

\* one requirement links to a test id that is also a known requirement id,
\* to a test id that has no record, and to a child
C4_Witness ==
    /\ JustBuilt
    /\ \E k \in Keys :
         /\ ReqAT \in Keys /\ ReqAT \in Range(req_tests[k])
         /\ \E tok \in Range(req_tests[k]) : ~HasRecord(tok) /\ tok \notin Keys
         /\ req_children[k] # <<>>

(***************************************************************************)
(* C5: after build_graph both maps have an entry for every known           *)
(* requirement id and for no other key.                                    *)
(***************************************************************************)
C5_AllKeys ==
    Built => (DOMAIN req_children = Keys /\ DOMAIN req_tests = Keys)

\* built, with a requirement whose two entries are empty
C5_Witness ==
    Built /\ \E k \in Keys : requirements[k] = <<>> /\ req_children[k] = <<>>
                             /\ req_tests[k] = <<>>

(***************************************************************************)
(* C6: build_graph leaves every outgoing token list as it was, and a       *)
(* token that is neither a test identifier nor a known requirement id is   *)
(* an edge of neither map.                                                 *)
(***************************************************************************)
C6_BrokenLinks ==
    [][(pc = "loaded" /\ pc' = "idle") =>
          /\ requirements' = requirements
          /\ \A tok \in Tokens : IsBroken(tok) =>
                \A k \in Keys :
                    /\ tok \notin Range(get(req_children', k, <<>>))
                    /\ tok \notin Range(get(req_tests', k, <<>>))]_vars

\* built from a list that holds a parseable unknown id and an unparseable one
C6_Witness ==
    Built /\ \E k \in Keys : {Unknown999, BAD} \subseteq Range(requirements[k])

(***************************************************************************)
(* C7: a rollup with at least one associated test whose result is in the   *)
(* Fail category is labelled Any Fail, whatever the other tests are.       *)
(***************************************************************************)
C7_AnyFail ==
    RollupDone =>
        ((\E t \in AssociatedTests(rid) : IsFail(t)) => ret.label = "Any Fail")

\* a failed test together with a test of another category
C7_Witness ==
    /\ RollupDone
    /\ \E t \in AssociatedTests(rid) : IsFail(t)
    /\ \E t \in AssociatedTests(rid) : IsPartial(t) \/ IsPass(t) \/ IsMissing(t)

(***************************************************************************)
(* C8: a rollup whose only associated tests are Missing (no Fail, no       *)
(* Partial, at least one test) is labelled Has Not Run.                    *)
(***************************************************************************)
C8_MissingHasNotRun ==
    RollupDone =>
        ((/\ AssociatedTests(rid) # {}
          /\ \A t \in AssociatedTests(rid) : IsMissing(t))
         => ret.label = "Has Not Run")

(***************************************************************************)
(* C9: a rollup with n >= 1 associated tests, every one with a record      *)
(* whose result is Pass, is labelled All Pass with counts {Pass: n}.       *)
(***************************************************************************)
C9_AllPass ==
    RollupDone =>
        ((/\ AssociatedTests(rid) # {}
          /\ \A t \in AssociatedTests(rid) : IsPass(t))
         => /\ ret.label = "All Pass"
            /\ DOMAIN ret.counts = {PASSED}
            /\ ret.counts[PASSED] = Len(ret.ids))

(***************************************************************************)
(* C10: a rollup of a requirement with no direct tests, none of whose      *)
(* descendants has direct tests, is labelled No Tests with empty counts    *)
(* and an empty id list; No Tests is returned only for an empty id list.   *)
(***************************************************************************)
C10_NoTests ==
    RollupDone =>
        /\ (\A n \in Family(rid) : DirectTests(n) = <<>>)
               => /\ ret.label = "No Tests"
                  /\ ret.counts = EmptyDict
                  /\ ret.ids = <<>>
        /\ ret.label = "No Tests" => ret.ids = <<>>

\* an empty rollup over a requirement that has descendants
C10_Witness ==
    /\ RollupDone
    /\ ret.label = "No Tests"
    /\ Family(rid) # {rid}
    /\ \A n \in Family(rid) : DirectTests(n) = <<>>

(***************************************************************************)
(* Counting.                                                               *)
(***************************************************************************)
\* the number of times t occurs in the sequence s
Occurrences(t, s) == Cardinality({i \in DOMAIN s : s[i] = t})

\* the number of direct-test links of the requirements of S
RECURSIVE DirectTestLinks(_)
DirectTestLinks(S) ==
    IF S = {} THEN 0
    ELSE LET n == CHOOSE x \in S : TRUE
         IN  Len(DirectTests(n)) + DirectTestLinks(S \ {n})

\* the sum of the values of a tally
RECURSIVE Total(_)
Total(counts) ==
    IF DOMAIN counts = {} THEN 0
    ELSE LET c == CHOOSE x \in DOMAIN counts : TRUE
         IN  counts[c] + Total([x \in DOMAIN counts \ {c} |-> counts[x]])

\* the category line 86 of the claim's rule gives a test id
Category(tid) ==
    IF ~HasRecord(tid) THEN Missing
    ELSE IF strip(tests[tid]) = <<>> THEN NotRun
    ELSE strip(tests[tid])

\* the requirements of r's family whose direct-test list holds t
Holders(r, t) == {n \in Family(r) : t \in Range(DirectTests(n))}

(***************************************************************************)
(* C11: a test id held once by each of exactly two different requirements  *)
(* of r's family (two descendants, or r and one descendant) is twice in    *)
(* the id list of rollup(r) and adds 2 to the count of its category.       *)
(***************************************************************************)
C11_CountedTwice ==
    RollupDone =>
        \A t \in AssociatedTests(rid) :
            (/\ Cardinality(Holders(rid, t)) = 2
             /\ \A n \in Holders(rid, t) : Occurrences(t, DirectTests(n)) = 1)
            => /\ Occurrences(t, ret.ids) = 2
               /\ get(ret.counts, Category(t), 0) >= 2

(***************************************************************************)
(* C18: rollup(r) takes r's own direct-test list exactly once: the id list *)
(* is as long as r's direct-test list plus the direct-test lists of the    *)
(* requirements other than r reachable from r, and the counts sum to that  *)
(* length.                                                                 *)
(***************************************************************************)
C18_OwnTestsOnce ==
    RollupDone =>
        /\ Len(ret.ids) = DirectTestLinks(Family(rid))
        /\ Total(ret.counts) = DirectTestLinks(Family(rid))

(***************************************************************************)
(* Segments of an identifier, by the positions of its separators.          *)
(***************************************************************************)
Dashes(tok) == {i \in DOMAIN tok : tok[i] = "-"}

SegmentCount(tok) == Cardinality(Dashes(tok)) + 1

\* what stands between the first and the second separator
SecondSegment(tok) ==
    LET d1 == CHOOSE i \in Dashes(tok) : \A j \in Dashes(tok) : i <= j
        d2 == CHOOSE i \in Dashes(tok) \ {d1} : \A j \in Dashes(tok) \ {d1} : i <= j
    IN  SubSeq(tok, d1 + 1, d2 - 1)

HasTestMarker(tok) == SegmentCount(tok) >= 3 /\ SecondSegment(tok) = AT

(***************************************************************************)
(* C12: is_test holds of an id exactly when the id has at least three      *)
(* '-'-separated segments and the second is the test marker; the parser    *)
(* fails on an id of fewer than three segments, for which is_test is       *)
(* false (the token is not taken as a test link).                          *)
(***************************************************************************)
C12_IsTest ==
    JustBuilt =>
        \A k \in Keys : \A tok \in Range(requirements[k]) :
            /\ is_test_id(tok) <=> HasTestMarker(tok)
            /\ tok \in Range(req_tests[k]) <=> HasTestMarker(tok)
            /\ parse_external_id(tok).ok <=> SegmentCount(tok) >= 3
            /\ SegmentCount(tok) < 3 => tok \notin Range(req_tests[k])

\* built from a two-segment token that ends in the marker, which is no test
C12_Witness ==
    /\ JustBuilt
    /\ \E k \in Keys : \E tok \in Range(requirements[k]) :
         /\ SegmentCount(tok) = 2
         /\ tok[Len(tok)] = "AT"
         /\ tok \notin Range(req_tests[k])

(***************************************************************************)
(* C13: putting the outgoing tokens of a requirement in another order and  *)
(* building the graph again gives that requirement the same set of         *)
(* children and the same set of direct tests, and every requirement the    *)
(* same descendants.                                                       *)
(***************************************************************************)
\* the orderings of the tokens of s
Permuted(s) == {[i \in DOMAIN s |-> s[p[i]]] : p \in Orders(DOMAIN s)}

C13_OrderIrrelevant ==
    JustBuilt =>
        \A k \in Keys : \A q \in Permuted(requirements[k]) :
            LET reqs2 == [requirements EXCEPT ![k] = q]
                children2 == build_graph(reqs2, "child")
                tests2 == build_graph(reqs2, "test")
            IN  /\ Range(get(children2, k, <<>>)) = Range(req_children[k])
                /\ Range(get(tests2, k, <<>>)) = Range(req_tests[k])
                /\ \A r \in Keys :
                       descendants(children2, r) = descendants(req_children, r)

\* built from a list that holds a dropped token ahead of a child and a test
C13_Witness ==
    /\ JustBuilt
    /\ \E k \in Keys : \E i, j, l \in DOMAIN requirements[k] :
         /\ i < j /\ i < l
         /\ IsBroken(requirements[k][i])
         /\ requirements[k][j] \in Range(req_children[k])
         /\ requirements[k][l] \in Range(req_tests[k])

(***************************************************************************)
(* C14: descendants and rollup are read-only.  No step of a query changes  *)
(* the requirements, the test records or the two adjacency maps, and what  *)
(* a query returns is fixed by the dataset and its argument, whatever      *)
(* queries ran before it (the id list up to the order in which the         *)
(* descendants are visited).                                               *)
(***************************************************************************)
BuiltChildren == build_graph(requirements, "child")

BuiltTests == build_graph(requirements, "test")

\* what rollup(r) returns when it visits the descendants in the given order
RollupOf(r, order) ==
    LET ids == ExtendAll(get(BuiltTests, r, <<>>), order)
        counts == Tally(ids, EmptyDict)
    IN  [label |-> summarize_counts(counts, Len(ids)), counts |-> counts, ids |-> ids]

Labels == {"No Tests", "Any Fail", "Partial", "NOT TESTED", "PASSED", "Mixed"}

C15_Categories ==
    RollupDone =>
        /\ DOMAIN ret.counts = {Category(ret.ids[i]) : i \in DOMAIN ret.ids}
        /\ \A c \in DOMAIN ret.counts :
               ret.counts[c] =
                   Cardinality({i \in DOMAIN ret.ids : Category(ret.ids[i]) = c})
        /\ ret.label \in Labels

\* a rollup over an id without a record, a blank result and a padded result
C15_Witness ==
    /\ RollupDone
    /\ \E t \in Range(ret.ids) : ~HasRecord(t)
    /\ \E t \in Range(ret.ids) : HasRecord(t) /\ tests[t] = Blank
    /\ \E t \in Range(ret.ids) : HasRecord(t) /\ tests[t] = PaddedPassed
    /\ DOMAIN ret.counts = {Missing, NotRun, PASSED}

(***************************************************************************)
(* C16: the child list and the direct-test list of a requirement are the   *)
(* tokens of its outgoing list that are classified into that list, in the  *)
(* order of the outgoing list and as often as they occur there.            *)
(***************************************************************************)
\* the i-th smallest member of the set of positions I
Nth(I, i) == CHOOSE x \in I : Cardinality({y \in I : y < x}) = i - 1

\* the subsequence of s at the positions I
Selected(s, I) == [i \in 1..Cardinality(I) |-> s[Nth(I, i)]]

C16_Subsequence ==
    JustBuilt =>
        \A k \in Keys :
            LET out == requirements[k]
            IN  /\ req_tests[k] = Selected(out, {i \in DOMAIN out : is_test_id(out[i])})
                /\ req_children[k] =
                       Selected(out, {i \in DOMAIN out :
                                        ~is_test_id(out[i]) /\ out[i] \in Keys})

\* a test token that comes twice with a child between the two
C16_Witness ==
    /\ JustBuilt
    /\ \E k \in Keys : \E i, j, l \in DOMAIN requirements[k] :
         /\ i < j /\ j < l
         /\ requirements[k][i] = requirements[k][l]
         /\ Occurrences(requirements[k][i], req_tests[k]) = 2
         /\ requirements[k][j] \in Range(req_children[k])

(***************************************************************************)
(* C17: a rollup with a test in the Partial category and none in the Fail  *)
(* category is labelled Partial, whatever else it holds, and the label is  *)
(* the same for every order in which the descendants are visited.          *)
(***************************************************************************)
C17_Partial ==
    RollupDone =>
        /\ ((\E t \in AssociatedTests(rid) : IsPartial(t))
            /\ ~(\E t \in AssociatedTests(rid) : IsFail(t)))
               => ret.label = "Partial"
        /\ \A order \in Orders(descendants(BuiltChildren, rid)) :
               RollupOf(rid, order).label = ret.label

\* a partial test next to one that was not run or has no record, met
\* through a descendant
C17_Witness ==
    /\ RollupDone
    /\ \E t \in AssociatedTests(rid) : IsPartial(t)
    /\ \E t \in AssociatedTests(rid) : IsNotRun(t) \/ IsMissing(t)
    /\ ~(\E t \in AssociatedTests(rid) : IsFail(t))
    /\ seen # {}

====
